---------------------------- MODULE Spec2Model ----------------------------
(***************************************************************************)
(* Model of src/main.py: the search for solutions (x, y, m, n) of the      *)
(* repunit equation R(x, m) = R(y, n) in three regimes                     *)
(*   - find_nondiv_solutions on the map of build_y_n_map (double-hash      *)
(*     sieve-join, exact confirmation),                                    *)
(*   - check_div_finite_cases (incremental growth per case (k, y)),        *)
(*   - check_n7_div_regime (exact-value buckets, n = 7).                   *)
(*                                                                         *)
(* Numbers.  Python integers are unbounded and the moduli are above 2^31,  *)
(* so every integer VALUE of the program (repunits, residues, packed keys, *)
(* val, target) is a limb sequence: base 256, least significant limb       *)
(* first, no most-significant zero limb, zero = << >>.  Two such sequences *)
(* are equal exactly when the numbers are.  Bases, lengths and loop        *)
(* counters (x, y, m, n, k) stay TLA+ integers.  numpy's uint64 values are *)
(* the same sequences cut to 8 limbs (Wrap64).                             *)
(***************************************************************************)
EXTENDS Integers, Sequences, FiniteSets, TLC

(***************************************************************************)
(* Unbounded naturals (Python int).  The operators split their index range *)
(* in halves, so that evaluation depth is logarithmic in the limb count.   *)
(*                                                                         *)
(* An intermediate value is bound as the element of a one-element set,     *)
(*     CHOOSE r \in { e(v) : v \in {d} } : TRUE     (e on the value of d), *)
(* which computes it once; the definitions of a LET and the arguments of   *)
(* an operator are computed again at each use when ENABLED is evaluated.   *)
(***************************************************************************)
\* the index of the most significant non-zero limb of s[lo..hi], 0 if none
RECURSIVE TopNonZero(_, _, _)
TopNonZero(s, lo, hi) ==
  IF lo > hi THEN 0
  ELSE IF lo = hi THEN (IF s[lo] # 0 THEN lo ELSE 0)
  ELSE CHOOSE r \in
         { IF p.h # 0 THEN p.h ELSE TopNonZero(s, lo, p.mid) :
             p \in { [mid |-> mid, h |-> TopNonZero(s, mid + 1, hi)] :
                       mid \in {(lo + hi) \div 2} } } : TRUE

\* drop the most significant zero limbs
Norm(s) ==
  CHOOSE r \in { SubSeq(v, 1, TopNonZero(v, 1, Len(v))) : v \in {s} } : TRUE

RECURSIVE BigOfNat(_)
BigOfNat(v) ==
  IF v = 0 THEN << >> ELSE <<v % 256>> \o BigOfNat(v \div 256)

Limb(a, i) == IF i <= Len(a) THEN a[i] ELSE 0

\* columns cols[lo..hi] (integers, possibly above 255 or negative) with the
\* carry cin brought to limbs: <<limbs, carry out>>
RECURSIVE Propagate(_, _, _, _)
Propagate(cols, lo, hi, cin) ==
  IF lo > hi THEN <<<< >>, cin>>
  ELSE IF lo = hi
  THEN CHOOSE r \in { <<<<c % 256>>, (c - (c % 256)) \div 256>> :
                        c \in {cols[lo] + cin} } : TRUE
  ELSE CHOOSE r \in
         { <<q.L[1] \o q.H[1], q.H[2]>> :
             q \in { [L |-> p.L,
                      H |-> Propagate(cols, p.mid + 1, hi, p.L[2])] :
                       p \in { [mid |-> mid,
                                L |-> Propagate(cols, lo, mid, cin)] :
                                 mid \in {(lo + hi) \div 2} } } } : TRUE

\* the limbs of a column sequence whose value is >= 0
OfColumns(cols) ==
  CHOOSE r \in
    { Norm(P[1] \o BigOfNat(P[2])) :
        P \in { Propagate(c, 1, Len(c), 0) : c \in {cols} } } : TRUE

MaxOf(i, j) == IF i >= j THEN i ELSE j

MinOf(i, j) == IF i <= j THEN i ELSE j

BigAdd(a, b) ==
  CHOOSE r \in
    { OfColumns([i \in 1..MaxOf(Len(va), Len(vb)) |->
                   Limb(va, i) + Limb(vb, i)]) :
        va \in {a}, vb \in {b} } : TRUE

\* a - b for a >= b
BigSub(a, b) ==
  CHOOSE r \in
    { OfColumns([i \in 1..Len(va) |-> va[i] - Limb(vb, i)]) :
        va \in {a}, vb \in {b} } : TRUE

\* a * s for a machine-size s (0 <= s < 2^23)
BigMulSmall(a, s) ==
  CHOOSE r \in
    { OfColumns([i \in 1..Len(va) |-> va[i] * vs]) :
        va \in {a}, vs \in {s} } : TRUE

\* the sum of a[i] * b[k + 1 - i] for i in lo..hi
RECURSIVE ColSum(_, _, _, _, _)
ColSum(a, b, k, lo, hi) ==
  IF lo > hi THEN 0
  ELSE IF lo = hi THEN a[lo] * b[k + 1 - lo]
  ELSE CHOOSE r \in
         { ColSum(a, b, k, lo, mid) + ColSum(a, b, k, mid + 1, hi) :
             mid \in {(lo + hi) \div 2} } : TRUE

\* a * b by columns: column k sums a[i] * b[k + 1 - i]
BigMul(a, b) ==
  CHOOSE r \in
    { IF va = << >> \/ vb = << >> THEN << >>
      ELSE OfColumns([k \in 1..(Len(va) + Len(vb) - 1) |->
             ColSum(va, vb, k, MaxOf(1, k + 1 - Len(vb)), MinOf(Len(va), k))]) :
        va \in {a}, vb \in {b} } : TRUE

\* the comparison of a[lo..hi] and b[lo..hi] from the top limb down
RECURSIVE CmpRange(_, _, _, _)
CmpRange(a, b, lo, hi) ==
  IF lo > hi THEN 0
  ELSE IF lo = hi
  THEN (IF a[lo] < b[lo] THEN -1 ELSE IF a[lo] > b[lo] THEN 1 ELSE 0)
  ELSE CHOOSE r \in
         { IF p.h # 0 THEN p.h ELSE CmpRange(a, b, lo, p.mid) :
             p \in { [mid |-> mid, h |-> CmpRange(a, b, mid + 1, hi)] :
                       mid \in {(lo + hi) \div 2} } } : TRUE

BigLt(a, b) ==
  CHOOSE r \in
    { IF Len(va) # Len(vb) THEN Len(va) < Len(vb)
      ELSE CmpRange(va, vb, 1, Len(va)) < 0 :
        va \in {a}, vb \in {b} } : TRUE

\* long division of a[lo..hi] by s from the top limb down, rem carried in:
\* <<quotient limbs, remainder>>; the upper half is divided first and its
\* remainder enters the lower half
RECURSIVE DivRange(_, _, _, _, _)
DivRange(a, s, lo, hi, rem) ==
  IF lo > hi THEN <<<< >>, rem>>
  ELSE IF lo = hi
  THEN CHOOSE r \in { <<<<cur \div s>>, cur % s>> :
                        cur \in {rem * 256 + a[lo]} } : TRUE
  ELSE CHOOSE r \in
         { <<q.L[1] \o q.H[1], q.L[2]>> :
             q \in { [H |-> p.H,
                      L |-> DivRange(a, s, lo, p.mid, p.H[2])] :
                       p \in { [mid |-> mid,
                                H |-> DivRange(a, s, mid + 1, hi, rem)] :
                                 mid \in {(lo + hi) \div 2} } } } : TRUE

\* a // s for a machine-size s (0 < s < 2^23)
BigDivSmall(a, s) ==
  CHOOSE r \in
    { Norm(DivRange(va, vs, 1, Len(va), 0)[1]) : va \in {a}, vs \in {s} } : TRUE

\* r % d for r < 2 * f * d, f a power of 2 or 0: f * d, (f / 2) * d, ..., d
\* are taken off r where they fit
RECURSIVE ReduceBy(_, _, _)
ReduceBy(r, d, f) ==
  IF f = 0 THEN r
  ELSE CHOOSE res \in
         { ReduceBy(v, d, f \div 2) :
             v \in { IF BigLt(p[1], p[2]) THEN p[1] ELSE BigSub(p[1], p[2]) :
                       p \in { <<r, BigMulSmall(d, f)>> } } } : TRUE

\* a % d for d > 0: with r = a % (256 * d), a % d is ReduceBy(r, d, 128)
RECURSIVE BigMod(_, _)
BigMod(a, d) ==
  CHOOSE r \in
    { IF BigLt(va, vd) THEN va
      ELSE ReduceBy(BigMod(va, <<0>> \o vd), vd, 128) :
        va \in {a}, vd \in {d} } : TRUE

\* pow(a, t) for a machine-size a
RECURSIVE BigPow(_, _)
BigPow(a, t) ==
  IF t = 0 THEN <<1>>
  ELSE CHOOSE r \in
         { IF t % 2 = 0 THEN sq ELSE BigMulSmall(sq, a) :
             sq \in { BigMul(h, h) : h \in {BigPow(a, t \div 2)} } } : TRUE

(***************************************************************************)
(* Program constants and the exact evaluator                               *)
(***************************************************************************)
\* 4294967291 = 0xFFFFFFFB
MOD1 == <<251, 255, 255, 255>>
\* 4294967279 = 0xFFFFFFEF
MOD2 == <<239, 255, 255, 255>>

\* repunit(a, t) = (pow(a, t) - 1) // (a - 1), a >= 2
repunit(a, t) == BigDivSmall(BigSub(BigPow(a, t), <<1>>), a - 1)

(***************************************************************************)
(* numpy uint64: results are cut to 64 bits                                *)
(***************************************************************************)
\* results cut to 32 bits
Wrap32(a) ==
  CHOOSE r \in { Norm(SubSeq(va, 1, MinOf(4, Len(va)))) : va \in {a} } : TRUE

\* results cut to 64 bits
Wrap64(a) ==
  CHOOSE r \in { Norm(SubSeq(va, 1, MinOf(8, Len(va)))) : va \in {a} } : TRUE

\* bases.astype(np.uint64), np.uint64(mod)
U64(v) == BigOfNat(v)

RECURSIVE ByteOr(_, _)
ByteOr(p, q) ==
  IF p = 0 THEN q
  ELSE IF q = 0 THEN p
  ELSE MaxOf(p % 2, q % 2) + 2 * ByteOr(p \div 2, q \div 2)

\* a | b
U64Or(a, b) ==
  CHOOSE r \in
    { Norm([i \in 1..MaxOf(Len(va), Len(vb)) |->
              ByteOr(Limb(va, i), Limb(vb, i))]) :
        va \in {a}, vb \in {b} } : TRUE

RECURSIVE Pow2(_)
Pow2(j) == IF j = 0 THEN 1 ELSE 2 * Pow2(j - 1)

\* a << bits
U64Shl(a, bits) ==
  Wrap64([i \in 1..(bits \div 8) |-> 0] \o BigMulSmall(a, Pow2(bits % 8)))

\* the recurrence with the increment taken before the product
TableStepEarlyIncrement(r, b, md) ==
  BigMod(Wrap64(BigMul(Wrap64(BigAdd(r, <<1>>)), b)), md)

\* (row * b + 1) % m on one element, line 30
TableStep(r, b, md) == BigMod(Wrap64(BigAdd(Wrap64(BigMul(r, b)), <<1>>)), md)

\* np.arange(lo, hi + 1)
Arange(lo, hi) == [i \in 1..(hi + 1 - lo) |-> lo + i - 1]

\* the cnt rows that follow row: the body of for _ in range(1, max_t),
\* cnt times
RECURSIVE TableRows(_, _, _, _)
TableRows(b, md, row, cnt) ==
  IF cnt <= 0 THEN << >>
  ELSE IF cnt = 1
  THEN << [j \in 1..Len(b) |-> TableStep(row[j], b[j], md)] >>
  ELSE CHOOSE r \in
         { p.first \o TableRows(b, md, p.first[p.half], cnt - p.half) :
             p \in { [half |-> half, first |-> TableRows(b, md, row, half)] :
                       half \in {cnt \div 2} } } : TRUE

\* out[t] here is out[t - 1] of the code: the residues of length t
build_repunit_tables(bases, max_t, md) ==
  CHOOSE r \in
    { <<p.row>> \o TableRows(p.b, md, p.row, max_t - 1) :
        p \in { [b |-> b, row |-> [j \in 1..Len(b) |-> BigMod(<<1>>, md)]] :
                  b \in { [j \in 1..Len(bases) |-> U64(bases[j])] } } } : TRUE

\* r1 | (r2 << 32)
PackKey(r1, r2) == U64Or(r1, U64Shl(r2, 32))

\* result[key] = [pair]: a key keeps its last pair only
SetOverwrite(map, key, pair) ==
  CHOOSE r \in
    { IF ky \in DOMAIN d
      THEN [d EXCEPT ![ky] = <<pair>>]
      ELSE d @@ (ky :> <<pair>>) :
        d \in {map}, ky \in {key} } : TRUE

\* result.setdefault(key, []).append(pair)
SetDefaultAppend(map, key, pair) ==
  CHOOSE r \in
    { IF ky \in DOMAIN d
      THEN [d EXCEPT ![ky] = Append(@, pair)]
      ELSE d @@ (ky :> <<pair>>) :
        d \in {map}, ky \in {key} } : TRUE

\* the inner loop of build_y_n_map for one n, from the i-th base on
RECURSIVE InsertRow(_, _, _, _, _, _)
InsertRow(map, ys, ta, tb, len, i) ==
  IF i > Len(ys) THEN map
  ELSE CHOOSE r \in
         { InsertRow(result, ys, ta, tb, len, i + 1) :
             result \in { SetDefaultAppend(map,
                                           PackKey(ta[len][i], tb[len][i]),
                                           <<ys[i], len>>) } } : TRUE

\* no ordering test
OrderAny(xx, yy, nn, mm) == TRUE

\* not (x < y and n < m) is skipped
OrderOk(xx, yy, nn, mm) == xx < yy /\ nn < mm

\* no divisibility test
DivisibleNever(mm, kk) == FALSE

\* (m - 1) % k == 0 is skipped in the non-divisibility regime
DivisibleSkip(mm, kk) == (mm - 1) % kk = 0

\* the loop over the candidates of one (x, m), lines 71-78
RECURSIVE Confirm(_, _, _, _)
Confirm(cands, j, xx, mm) ==
  IF j > Len(cands) THEN << >>
  ELSE LET yy == cands[j][1]
           nn == cands[j][2]
           kk == nn - 1
       IN  (IF ~OrderOk(xx, yy, nn, mm) THEN << >>
            ELSE IF DivisibleSkip(mm, kk) THEN << >>
            ELSE IF repunit(xx, mm) = repunit(yy, nn)
                 THEN << <<xx, yy, mm, nn>> >>
                 ELSE << >>)
           \o Confirm(cands, j + 1, xx, mm)

(***************************************************************************)
(* check_div_finite_cases                                                  *)
(***************************************************************************)
\* for y in range(3, y_max + 1): cases.append((k, y))
CasesUpTo(kk, ymax) == [i \in 1..(ymax - 2) |-> <<kk, i + 2>>]

\* the case list the code builds, lines 88-98
Cases ==
  [i \in 1..18 |-> <<12 + i, 3>>]
  \o CasesUpTo(5, 5) \o CasesUpTo(8, 6) \o CasesUpTo(10, 7) \o CasesUpTo(12, 7)
  \o << <<7, 3>>, <<9, 3>> >>

StepCap == 512

\* the growth step with the increment taken before the product
GrowValEarlyIncrement(v, xx) == BigMulSmall(BigAdd(v, <<1>>), xx)

\* val = val * x + 1
GrowVal(v, xx) == BigAdd(BigMulSmall(v, xx), <<1>>)

\* the test on m in place of m - 1
NotDivisibleSkipOffByOne(mm, kk) == mm % kk # 0

\* (m - 1) % k != 0 is skipped in the finite-case regime
NotDivisibleSkip(mm, kk) == (mm - 1) % kk # 0

\* x is not advanced
NextXStuck(xx) == xx

\* the next x of for x in range(2, y)
NextX(xx) == xx + 1

(***************************************************************************)
(* largest_y_with_sqrt_lt_6log2 and check_n7_div_regime                    *)
(*                                                                         *)
(* math.sqrt(y) < 6.0 * math.log(y, 2) is decided in fixed point: log2(y)  *)
(* to 12 fractional bits, by squaring a 14-bit mantissa, and the two sides *)
(* compared squared.  For every y in 2..32767 this gives the answer of the *)
(* double-precision comparison (the closest y, 5575 and 5576, differ by    *)
(* 0.0026 and 0.0025 on the two sides).                                    *)
(***************************************************************************)
RECURSIVE BitsOf(_)
BitsOf(v) == IF v = 0 THEN 0 ELSE 1 + BitsOf(v \div 2)

\* a.bit_length(), which is floor(log2(a)) + 1
BitLength(a) ==
  IF a = << >> THEN 0 ELSE 8 * (Len(a) - 1) + BitsOf(a[Len(a)])

RECURSIVE LogBits(_, _, _)
LogBits(xm, j, acc) ==
  IF j = 0 THEN acc
  ELSE CHOOSE r \in
         { IF sq >= 32768 THEN LogBits(sq \div 2, j - 1, 2 * bits + 1)
                          ELSE LogBits(sq, j - 1, 2 * bits) :
             sq \in {(xm * xm) \div 16384}, bits \in {acc} } : TRUE

\* floor(4096 * log2(y)), 2 <= y < 32768
Log2Fixed(yy) ==
  CHOOSE r \in
    { LogBits(yy * Pow2(14 - e), 12, e) : e \in {BitsOf(yy) - 1} } : TRUE

\* math.sqrt(y) < 6.0 * math.log(y, 2), as y * 4096^2 < (6 * 4096 * log2 y)^2
SqrtLt6Log2(yy) ==
  CHOOSE r \in
    { BigLt(<<0, 0, 0>> \o BigOfNat(yy), BigMul(s, s)) :
        s \in {BigOfNat(6 * Log2Fixed(yy))} } : TRUE

\* best after the scan of y = lo..hi, entered with best
RECURSIVE ScanBest(_, _, _)
ScanBest(lo, hi, best) ==
  IF lo > hi THEN best
  ELSE IF lo = hi THEN (IF SqrtLt6Log2(lo) THEN lo ELSE best)
  ELSE \* the lower half is scanned first
       CHOOSE r \in
         { ScanBest(p.mid + 1, hi, p.low) :
             p \in { [mid |-> mid, low |-> ScanBest(lo, mid, best)] :
                       mid \in {(lo + hi) \div 2} } } : TRUE

largest_y_with_sqrt_lt_6log2(lim) == ScanBest(2, lim, 0)

Limit == 20000

ExpectedYMax == 5575

ExpectedMMax == 78

\* y_max != 5575 raises
ThresholdOk(ym) == ym = ExpectedYMax

\* int(math.floor(math.log(7 * (y_max**6), 2))) + 1
MMaxOf(ym) == BitLength(BigMulSmall(BigPow(ym, 6), 7))

\* [6 * t + 1 for t in range(2, (m_max - 1) // 6 + 1)]
ValidMs(mmax) == [j \in 1..MaxOf(0, (mmax - 1) \div 6 - 1) |-> 6 * (j + 1) + 1]

\* a dict with no key
EmptyMap == [z \in {} |-> << >>]

\* by_value.setdefault(key, []).append(pair) for the j-th and the later
\* <<key, pair>> of entries
RECURSIVE AppendAll(_, _, _)
AppendAll(map, entries, j) ==
  IF j > Len(entries) THEN map
  ELSE CHOOSE r \in
         { AppendAll(result, entries, j + 1) :
             result \in { SetDefaultAppend(map, entries[j][1],
                                           entries[j][2]) } } : TRUE

(***************************************************************************)
(* The repunits of one base.  The bucket loop takes repunit(x, m) for      *)
(* 5573 bases and 11 lengths, numbers of up to 908 bits.  They are grown   *)
(* from one another by R(a, t + 1) = a * R(a, t) + 1, the step of line     *)
(* 109, on limbs of base 65536 that are left loose (below 2^17, so that a  *)
(* limb times a base below 2^13 stays a machine integer) and are brought   *)
(* to the limb sequence of repunit(a, t) where a key is taken.             *)
(***************************************************************************)
Wide == 65536

\* w * a + 1 on loose limbs: each limb keeps the low 16 bits of its
\* product and takes the high bits of the product below; the 1 comes in as
\* the high bits of a limb Wide put below the lowest
GrowWide(w, a) ==
  CHOOSE r \in
    { SubSeq([i \in 1..Len(c) - 1 |-> (c[i + 1] % Wide) + (c[i] \div Wide)],
             1, IF c[Len(c) - 1] < Wide THEN Len(c) - 2 ELSE Len(c) - 1) :
        c \in { <<Wide>> \o [i \in 1..Len(w) |-> w[i] * a] \o <<0>> } } : TRUE

\* cnt >= 1 steps of GrowWide, in halves
RECURSIVE GrowTimes(_, _, _)
GrowTimes(w, a, cnt) ==
  IF cnt = 1 THEN GrowWide(w, a)
  ELSE CHOOSE r \in
         { GrowTimes(h, a, cnt - (cnt \div 2)) :
             h \in { GrowTimes(w, a, cnt \div 2) } } : TRUE

\* the carry into limb i of limbs d that are at most Wide
RECURSIVE CarryIn(_, _)
CarryIn(d, i) ==
  IF i = 1 THEN 0
  ELSE IF d[i - 1] >= Wide THEN 1
  ELSE IF d[i - 1] = Wide - 1 THEN CarryIn(d, i - 1)
  ELSE 0

\* the limb sequence (base 256) of the number of the loose limbs w: the
\* high bits go up one limb (d, below a 0), the carries that are left
\* ripple (e), every limb gives two bytes
BytesOfWide(w) ==
  CHOOSE r \in
    { Norm(SubSeq([i \in 1..(2 * Len(e)) |->
                     IF i % 2 = 1 THEN e[(i + 1) \div 2] % 256
                     ELSE e[i \div 2] \div 256], 1, 2 * Len(e))) :
        e \in { SubSeq([i \in 1..Len(d) - 1 |->
                          (d[i + 1] + (IF d[i] < Wide - 1 THEN 0
                                       ELSE CarryIn(d, i + 1))) % Wide],
                       1, Len(d) - 1) :
          d \in { <<0>> \o [i \in 1..Len(wz) - 1 |->
                             (wz[i + 1] % Wide) + (wz[i] \div Wide)] :
            wz \in { <<0>> \o w \o <<0>> } } } } : TRUE

\* from w = R(a, t), t < ms[lo]: the <<repunit(a, m), <<a, m>>>> of
\* m = ms[lo], ..., ms[hi] (ascending) and the loose limbs of R(a, ms[hi])
RECURSIVE RepunitRun(_, _, _, _, _, _)
RepunitRun(w, t, a, ms, lo, hi) ==
  IF lo = hi
  THEN CHOOSE r \in
         { [e |-> << <<BytesOfWide(nw), <<a, ms[lo]>>>> >>, w |-> nw] :
             nw \in { GrowTimes(w, a, ms[lo] - t) } } : TRUE
  ELSE CHOOSE r \in
         { [e |-> q.L.e \o q.H.e, w |-> q.H.w] :
             q \in { [L |-> p.L,
                      H |-> RepunitRun(p.L.w, ms[p.mid], a, ms, p.mid + 1, hi)] :
                       p \in { [mid |-> mid,
                                L |-> RepunitRun(w, t, a, ms, lo, mid)] :
                                 mid \in {(lo + hi) \div 2} } } } : TRUE

\* <<repunit(a, m), <<a, m>>>> for m in ms, ms ascending from 2 or above
RepunitEntries(a, ms) ==
  IF Len(ms) = 0 THEN << >> ELSE RepunitRun(<<1>>, 1, a, ms, 1, Len(ms)).e

\* for m in valid_ms: by_value.setdefault(repunit(x, m), []).append((x, m))
BucketX(map, ms, xx) ==
  CHOOSE r \in
    { AppendAll(map, entries, 1) :
        entries \in { RepunitEntries(xx, ms) } } : TRUE

\* two dicts joined: the lists of g are appended to those of f, key by key
MergeMaps(f, g) ==
  [v \in DOMAIN f \cup DOMAIN g |->
     (IF v \in DOMAIN f THEN f[v] ELSE << >>)
     \o (IF v \in DOMAIN g THEN g[v] ELSE << >>)]

\* the dicts of L[lo..hi] joined in order
RECURSIVE MergeRange(_, _, _)
MergeRange(L, lo, hi) ==
  IF lo = hi THEN L[lo]
  ELSE CHOOSE r \in
         { MergeMaps(p.A, MergeRange(L, p.mid + 1, hi)) :
             p \in { [mid |-> mid, A |-> MergeRange(L, lo, mid)] :
                       mid \in {(lo + hi) \div 2} } } : TRUE

\* by_value after for x in range(lo, hi + 1) on the empty dict: every x
\* files its pairs after those of the x below it, so the dict is the
\* dicts of the single x joined in the order of x
BucketRange(ms, lo, hi) ==
  IF lo > hi THEN EmptyMap
  ELSE CHOOSE r \in
         { MergeRange(L, 1, Len(L)) :
             L \in { SubSeq([i \in 1..(hi - lo + 1) |->
                               BucketX(EmptyMap, ms, lo + i - 1)],
                            1, hi - lo + 1) } } : TRUE

\* the loop over by_value.get(target, []) for one y, lines 150-152
RECURSIVE Matches(_, _, _, _)
Matches(hits, j, yy, nn) ==
  IF j > Len(hits) THEN << >>
  ELSE LET xx == hits[j][1]
           mm == hits[j][2]
       IN  (IF xx < yy /\ nn < mm /\ (mm - 1) % 6 = 0
            THEN << <<xx, yy, mm, nn>> >> ELSE << >>)
           \o Matches(hits, j + 1, yy, nn)

\* the sequences of L[lo..hi] one after the other
RECURSIVE Flatten(_, _, _)
Flatten(L, lo, hi) ==
  IF lo > hi THEN << >>
  ELSE IF lo = hi THEN L[lo]
  ELSE CHOOSE r \in
         { p.A \o Flatten(L, p.mid + 1, hi) :
             p \in { [mid |-> mid, A |-> Flatten(L, lo, mid)] :
                       mid \in {(lo + hi) \div 2} } } : TRUE

\* by_value.get(repunit(y, n), []) for y = lo, ..., hi
HitLists(map, nn, lo, hi) ==
  SubSeq([i \in 1..(hi - lo + 1) |->
            CHOOSE r \in
              { IF t \in DOMAIN map THEN map[t] ELSE << >> :
                  t \in { repunit(lo + i - 1, nn) } } : TRUE],
         1, hi - lo + 1)

\* what the lookup loop appends for y = lo, ..., hi, given the lists it reads
Appended(H, nn, lo) ==
  CHOOSE r \in
    { Flatten(L, 1, Len(L)) :
        L \in { SubSeq([i \in 1..Len(H) |-> Matches(H[i], 1, lo + i - 1, nn)],
                       1, Len(H)) } } : TRUE

\* the last (x, m) the lookup loop binds, <<xx, mm>> if it binds none
LastBound(H, xx, mm) ==
  CHOOSE r \in
    { IF S = {} THEN <<xx, mm>>
      ELSE CHOOSE p \in { H[i][Len(H[i])] : i \in { j \in S : \A j2 \in S : j2 <= j } } : TRUE :
        S \in { { i \in 1..Len(H) : H[i] # << >> } } } : TRUE

(***************************************************************************)
(* The state machine.  One run is one regime check on one input.           *)
(***************************************************************************)
VARIABLES
  regime,      \* "nondiv", "finite" or "n7": the check that runs
  pc,          \* the position in it
  args,        \* its input: the ranges, the case list, the scan limit
  solutions,   \* the list of tuples <<x, y, m, n>> it returns
  yt1, yt2,    \* t1, t2 of build_y_n_map
  y_n_map,     \* result of build_y_n_map, the y_n_map of the join
  xt1, xt2,    \* t1, t2 of find_nondiv_solutions
  candidates,  \* y_n_map.get(key) for the current (x, m)
  x, m, n,     \* the loop variables of the running check
  ci, k, y,    \* the index of the current case, and its k and y
  target, val, \* target and val of the finite-case check
  y_max, m_max, valid_ms, by_value,   \* locals of check_n7_div_regime
  raised       \* the RuntimeError raised: the text of its message and the
               \* values formatted into it; NoError if none

vars == <<regime, pc, args, solutions, yt1, yt2, y_n_map, xt1, xt2,
          candidates, x, m, n, ci, k, y, target, val,
          y_max, m_max, valid_ms, by_value, raised>>

nondivVars == <<yt1, yt2, y_n_map, xt1, xt2, candidates>>
finiteVars == <<ci, k, y, target, val>>
n7Vars == <<y_max, m_max, valid_ms, by_value, raised>>

NoError == [text |-> "", values |-> << >>]

(***************************************************************************)
(* Inputs.  The ranges of the run of check_nondiv_regime (y in 3..316,     *)
(* n in 4..503, x in 2..315, m in 5..4197) are explored on sub-ranges:     *)
(* small bases and lengths from 2 on, where equal repunits exist; the top  *)
(* bases, where row * b + 1 passes 2^32; base 2 and 3 up to the lengths    *)
(* where the repunit passes the moduli.                                    *)
(***************************************************************************)
SmallBase == 6
SmallLenX == 5
SmallLenY == 3
TopLenX == 7
TopLenY == 6
LongLenX == 34
LongLenY == 22
ConfXMax == 315
ConfYMax == 316

Ranges(x1, x2, m1, m2, y1, y2, n1, n2) ==
  [x_min |-> x1, x_max |-> x2, m_min |-> m1, m_max |-> m2,
   y_min |-> y1, y_max |-> y2, n_min |-> n1, n_max |-> n2]

NondivInputs ==
  { Ranges(2, x2, m1, SmallLenX, y1, SmallBase, 2, SmallLenY) :
      x2 \in {SmallBase - 1, SmallBase}, m1 \in {2, 3}, y1 \in {2, 3} }
  \cup { Ranges(ConfXMax - 1, ConfXMax, 5, TopLenX,
                ConfYMax - 1, ConfYMax, 4, TopLenY),
         Ranges(2, 2, 5, LongLenX, 3, 3, 4, LongLenY) }

\* the case list of the code, and one-case lists of small cases
TestK == 2
TestY == 6

FiniteInputs ==
  {Cases} \cup { << <<kk, yy>> >> : kk \in 1..TestK, yy \in 3..TestY }

\* a case whose target is beyond R(2, 513)
FarInputs == { << <<257, 5>> >> }

\* the limit of the code, and limits that make y_max drift
DriftLimit == 6

N7Inputs == {Limit} \cup 0..DriftLimit

Start(r, a) ==
  /\ regime = r
  /\ args = a
  /\ pc = "start"
  /\ solutions = << >>
  /\ yt1 = << >> /\ yt2 = << >> /\ xt1 = << >> /\ xt2 = << >>
  /\ y_n_map = EmptyMap
  /\ candidates = << >>
  /\ x = 0 /\ m = 0 /\ n = 0 /\ ci = 0 /\ k = 0 /\ y = 0
  /\ target = << >> /\ val = << >>
  /\ y_max = 0 /\ m_max = 0 /\ valid_ms = << >>
  /\ by_value = EmptyMap
  /\ raised = NoError

Init ==
  \E r \in {"nondiv", "finite", "n7"} :
    \E a \in (CASE r = "nondiv" -> NondivInputs
                [] r = "finite" -> FiniteInputs
                [] OTHER -> N7Inputs) : Start(r, a)

InitFar == Init \/ \E a \in FarInputs : Start("finite", a)

(***************************************************************************)
(* build_y_n_map, lines 35-48                                              *)
(***************************************************************************)
BuildTables ==
  /\ regime = "nondiv" /\ pc = "start"
  /\ LET ys == Arange(args.y_min, args.y_max)
     IN  /\ yt1' = build_repunit_tables(ys, args.n_max, MOD1)
         /\ yt2' = build_repunit_tables(ys, args.n_max, MOD2)
  /\ y_n_map' = EmptyMap
  /\ n' = args.n_min
  /\ pc' = "build"
  /\ UNCHANGED <<regime, args, solutions, xt1, xt2, candidates, x, m>>
  /\ UNCHANGED finiteVars /\ UNCHANGED n7Vars

\* one n of for n in range(n_min, n_max + 1)
BuildRow ==
  /\ regime = "nondiv" /\ pc = "build" /\ n <= args.n_max
  /\ y_n_map' = InsertRow(y_n_map, Arange(args.y_min, args.y_max),
                          yt1, yt2, n, 1)
  /\ n' = n + 1
  /\ UNCHANGED <<regime, pc, args, solutions, yt1, yt2, xt1, xt2,
                 candidates, x, m>>
  /\ UNCHANGED finiteVars /\ UNCHANGED n7Vars

(***************************************************************************)
(* find_nondiv_solutions, lines 51-79                                      *)
(***************************************************************************)
FindInit ==
  /\ regime = "nondiv" /\ pc = "build" /\ n > args.n_max
  /\ LET xs == Arange(args.x_min, args.x_max)
     IN  /\ xt1' = build_repunit_tables(xs, args.m_max, MOD1)
         /\ xt2' = build_repunit_tables(xs, args.m_max, MOD2)
  /\ solutions' = << >>
  /\ m' = args.m_min
  /\ x' = args.x_min
  /\ pc' = "find"
  /\ UNCHANGED <<regime, args, yt1, yt2, y_n_map, candidates, n>>
  /\ UNCHANGED finiteVars /\ UNCHANGED n7Vars

\* the index of x in xs
XIndex == x + 1 - args.x_min

\* keys[i] for the current m and x
CurrentKey == PackKey(xt1[m][XIndex], xt2[m][XIndex])

\* the next (m, x) of the two loops
Advance ==
  IF x < args.x_max THEN m' = m /\ x' = x + 1
                    ELSE m' = m + 1 /\ x' = args.x_min

\* candidates = y_n_map.get(key); if not candidates: continue
FindLookup ==
  /\ regime = "nondiv" /\ pc = "find" /\ m <= args.m_max
  /\ IF CurrentKey \in DOMAIN y_n_map
     THEN /\ candidates' = y_n_map[CurrentKey]
          /\ pc' = "cand"
          /\ UNCHANGED <<x, m>>
     ELSE /\ Advance
          /\ UNCHANGED <<candidates, pc>>
  /\ UNCHANGED <<regime, args, solutions, yt1, yt2, y_n_map, xt1, xt2, n>>
  /\ UNCHANGED finiteVars /\ UNCHANGED n7Vars

\* for y, n in candidates: ... solutions.append((x, y, m, n))
FindCandidates ==
  /\ regime = "nondiv" /\ pc = "cand"
  /\ solutions' = solutions \o Confirm(candidates, 1, x, m)
  /\ candidates' = << >>
  /\ Advance
  /\ pc' = "find"
  /\ UNCHANGED <<regime, args, yt1, yt2, y_n_map, xt1, xt2, n>>
  /\ UNCHANGED finiteVars /\ UNCHANGED n7Vars

FindReturn ==
  /\ regime = "nondiv" /\ pc = "find" /\ m > args.m_max
  /\ pc' = "done"
  /\ UNCHANGED <<regime, args, solutions, x, m, n>>
  /\ UNCHANGED nondivVars /\ UNCHANGED finiteVars /\ UNCHANGED n7Vars

(***************************************************************************)
(* check_div_finite_cases, lines 100-119                                   *)
(***************************************************************************)
FiniteStart ==
  /\ regime = "finite" /\ pc = "start"
  /\ solutions' = << >>
  /\ ci' = 1
  /\ pc' = "case"
  /\ UNCHANGED <<regime, args, x, m, n, k, y, target, val>>
  /\ UNCHANGED nondivVars /\ UNCHANGED n7Vars

\* for k, y in cases: n = k + 1; target = repunit(y, n)
FiniteCase ==
  /\ regime = "finite" /\ pc = "case"
  /\ IF ci <= Len(args)
     THEN /\ k' = args[ci][1]
          /\ y' = args[ci][2]
          /\ n' = args[ci][1] + 1
          /\ target' = repunit(args[ci][2], args[ci][1] + 1)
          /\ x' = 2
          /\ pc' = "forx"
     ELSE /\ pc' = "done"
          /\ UNCHANGED <<k, y, n, target, x>>
  /\ UNCHANGED <<regime, args, solutions, m, ci, val>>
  /\ UNCHANGED nondivVars /\ UNCHANGED n7Vars

\* for x in range(2, y): val = 1; m = 1
FiniteX ==
  /\ regime = "finite" /\ pc = "forx"
  /\ IF x < y
     THEN /\ val' = <<1>>
          /\ m' = 1
          /\ pc' = "while"
          /\ UNCHANGED ci
     ELSE /\ ci' = ci + 1
          /\ pc' = "case"
          /\ UNCHANGED <<val, m>>
  /\ UNCHANGED <<regime, args, solutions, x, n, k, y, target>>
  /\ UNCHANGED nondivVars /\ UNCHANGED n7Vars

\* one test of while val < target and one pass of its body
FiniteGrow ==
  /\ regime = "finite" /\ pc = "while"
  /\ IF ~BigLt(val, target)
     THEN /\ x' = NextX(x) /\ pc' = "forx"
          /\ UNCHANGED <<m, val, solutions>>
     ELSE LET m1 == m + 1
              v1 == GrowVal(val, x)
          IN  /\ m' = m1
              /\ val' = v1
              /\ IF m1 <= n THEN
                   UNCHANGED <<x, pc, solutions>>
                 ELSE IF NotDivisibleSkip(m1, k) THEN
                   UNCHANGED <<x, pc, solutions>>
                 ELSE IF v1 = target THEN
                   /\ solutions' = Append(solutions, <<x, y, m1, n>>)
                   /\ x' = NextX(x) /\ pc' = "forx"
                 ELSE IF m1 > StepCap THEN
                   /\ x' = NextX(x) /\ pc' = "forx"
                   /\ UNCHANGED solutions
                 ELSE
                   UNCHANGED <<x, pc, solutions>>
  /\ UNCHANGED <<regime, args, n, ci, k, y, target>>
  /\ UNCHANGED nondivVars /\ UNCHANGED n7Vars

(***************************************************************************)
(* check_n7_div_regime, lines 130-153                                      *)
(***************************************************************************)
\* lines 131-140: the two derived constants and their checks
N7Threshold ==
  /\ regime = "n7" /\ pc = "start"
  /\ \E ym \in {largest_y_with_sqrt_lt_6log2(args)} :
         /\ y_max' = ym
         /\ IF ~ThresholdOk(ym)
            THEN /\ raised' = [text |-> "unexpected threshold y_max=",
                             values |-> <<ym>>]
                 /\ pc' = "raised"
                 /\ UNCHANGED <<n, m_max, valid_ms, x>>
            ELSE /\ n' = 7
                 /\ m_max' = MMaxOf(ym)
                 /\ IF MMaxOf(ym) # ExpectedMMax
                    THEN /\ raised' = [text |-> "unexpected m_max=",
                                     values |-> <<MMaxOf(ym)>>]
                         /\ pc' = "raised"
                         /\ UNCHANGED <<valid_ms, x>>
                    ELSE /\ valid_ms' = ValidMs(MMaxOf(ym))
                         /\ x' = 2
                         /\ pc' = "bucket"
                         /\ UNCHANGED raised
  /\ UNCHANGED <<regime, args, solutions, m, by_value>>
  /\ UNCHANGED nondivVars /\ UNCHANGED finiteVars

\* by_value = {} and the loop for x in range(2, y_max), lines 141-145; x and
\* m are left at the last values of their loops
N7Bucket ==
  /\ regime = "n7" /\ pc = "bucket"
  /\ by_value' = BucketRange(valid_ms, 2, y_max - 1)
  /\ x' = y_max - 1
  /\ m' = IF Len(valid_ms) > 0 THEN valid_ms[Len(valid_ms)] ELSE m
  /\ pc' = "lookup"
  /\ UNCHANGED <<regime, args, solutions, n, y_max, m_max, valid_ms, raised>>
  /\ UNCHANGED nondivVars /\ UNCHANGED finiteVars

\* solutions = [] and the loop for y in range(3, y_max + 1), lines 147-152
N7Lookup ==
  /\ regime = "n7" /\ pc = "lookup"
  /\ \E H \in { HitLists(by_value, n, 3, y_max) } :
       /\ solutions' = Appended(H, n, 3)
       /\ x' = LastBound(H, x, m)[1]
       /\ m' = LastBound(H, x, m)[2]
  /\ y' = y_max
  /\ target' = repunit(y_max, n)
  /\ pc' = "return"
  /\ UNCHANGED <<regime, args, n, ci, k, val>>
  /\ UNCHANGED nondivVars /\ UNCHANGED n7Vars

\* return solutions, line 153
N7Return ==
  /\ regime = "n7" /\ pc = "return"
  /\ pc' = "done"
  /\ UNCHANGED <<regime, args, solutions, x, m, n>>
  /\ UNCHANGED nondivVars /\ UNCHANGED finiteVars /\ UNCHANGED n7Vars

Next ==
  \/ BuildTables \/ BuildRow \/ FindInit \/ FindLookup \/ FindCandidates
  \/ FindReturn
  \/ FiniteStart \/ FiniteCase \/ FiniteX \/ FiniteGrow
  \/ N7Threshold \/ N7Bucket \/ N7Lookup \/ N7Return

Spec == Init /\ [][Next]_vars

\* the same runs, and the case whose target is far away
SpecFar == InitFar /\ [][Next]_vars

\* the steps of check_div_finite_cases
FiniteNext == FiniteStart \/ FiniteCase \/ FiniteX \/ FiniteGrow

\* check_div_finite_cases runs as one sequential routine: when it can take
\* a step it takes it
LiveSpec == Init /\ [][Next]_vars /\ WF_vars(FiniteNext)

(***************************************************************************)
(* Properties                                                              *)
(***************************************************************************)
Sols == {solutions[j] : j \in 1..Len(solutions)}

\* the tuple appended last
LastSol == solutions[Len(solutions)]

TablesBuilt == regime = "nondiv" /\ pc \in {"find", "cand", "done"}

\* the exact repunits of the bases lo..hi for the lengths 1..len
ExactTable(lo, hi, len) ==
  [b \in lo..hi, t \in 1..len |-> repunit(b, t)]

\* bases whose keys are compared with repunit(x, m): the ends of
\* range(2, y_max) and the x of R(90, 3) = R(2, 13)
ProbeBases == {2, 90, ExpectedYMax - 1}

\* (x, m) is filed in by_value under the key repunit(x, m)
FiledExactly(xx, mm) ==
  /\ repunit(xx, mm) \in DOMAIN by_value
  /\ \E j \in 1..Len(by_value[repunit(xx, mm)]) :
       by_value[repunit(xx, mm)][j] = <<xx, mm>>

\* C1 (exactness): every tuple (x, y, m, n) in the list of a regime driver has
\* R(x, m) = R(y, n) in exact arithmetic, and in the finite-case driver val
\* is R(x, m) wherever it is compared with target: at the loop test, and
\* after the last growth step of an x (the x before the one at "forx").
\* In the n = 7 driver, whose tuples are read from by_value under the key
\* R(y, 7), the (x, m) of the probed bases are filed under the key R(x, m).
C1_Exactness ==
  /\ \A s \in Sols : repunit(s[1], s[3]) = repunit(s[2], s[4])
  /\ (regime = "n7" /\ pc \in {"lookup", "return", "done"}) =>
       \A xx \in ProbeBases : \A j \in 1..Len(valid_ms) :
         FiledExactly(xx, valid_ms[j])
  /\ (regime = "finite" /\ pc = "while") => val = repunit(x, m)
  /\ (regime = "finite" /\ pc = "forx" /\ x > 2) => val = repunit(x - 1, m)

\* a tuple has just been recorded by the finite-case driver, val = target
C1_Witness ==
  /\ regime = "finite" /\ pc = "forx" /\ x > 2
  /\ Len(solutions) > 0
  /\ LastSol = <<x - 1, y, m, n>>
  /\ val = target
  /\ m > 2

\* the (x, m) the join has finished: those before the current one
Processed(xx, mm) ==
  /\ pc \in {"find", "cand", "done"}
  /\ mm \in args.m_min..args.m_max /\ xx \in args.x_min..args.x_max
  /\ (mm < m \/ (mm = m /\ xx < x))

\* C2 (no true solution is dropped by the sieve-join): for x, m, y, n in the
\* ranges with x < y, n < m, (m-1) mod (n-1) # 0 and R(x, m) = R(y, n), the
\* tuple is in the list once (x, m) has been processed, so in the returned
\* list.  Every (y, n) of the ranges with R(y, n) = R(x, m) is in the bucket
\* of the key of the current (x, m), hence among its candidates, also when
\* several pairs share the key.
C2_NoSolutionDropped ==
  regime = "nondiv" /\ pc \in {"find", "cand", "done"} =>
    LET RX == ExactTable(args.x_min, args.x_max, args.m_max)
        RY == ExactTable(args.y_min, args.y_max, args.n_max)
        YN == (args.y_min..args.y_max) \X (args.n_min..args.n_max)
    IN  /\ \A xx \in args.x_min..args.x_max, mm \in args.m_min..args.m_max :
             Processed(xx, mm) =>
               \A p \in YN :
                 ( /\ xx < p[1] /\ p[2] < mm
                   /\ (mm - 1) % (p[2] - 1) # 0
                   /\ RX[xx, mm] = RY[p[1], p[2]] )
                 => <<xx, p[1], mm, p[2]>> \in Sols
        /\ (pc = "find" /\ m <= args.m_max) =>
             \A p \in YN :
               RX[x, m] = RY[p[1], p[2]] =>
                 /\ CurrentKey \in DOMAIN y_n_map
                 /\ \E j \in 1..Len(y_n_map[CurrentKey]) :
                      y_n_map[CurrentKey][j] = p
        /\ pc = "cand" =>
             \A p \in YN :
               RX[x, m] = RY[p[1], p[2]] =>
                 \E j \in 1..Len(candidates) : candidates[j] = p

\* the candidates of the current (x, m) are two or more pairs (y, n) of the
\* ranges with R(y, n) = R(x, m): they share one packed key
C2_Witness ==
  /\ regime = "nondiv" /\ pc = "cand"
  /\ Len(candidates) >= 2
  /\ \A j \in 1..Len(candidates) :
       repunit(candidates[j][1], candidates[j][2]) = repunit(x, m)
  /\ \E j \in 1..Len(candidates) : x < candidates[j][1] /\ candidates[j][2] < m

\* C3 (filter soundness): for the bases and lengths of the built tables,
\* R(x, m) = R(y, n) exactly implies that the packed key r1 | (r2 << 32) of
\* (x, m) equals the packed key of (y, n).
C3_FilterSound ==
  TablesBuilt =>
    LET RX == ExactTable(args.x_min, args.x_max, args.m_max)
        RY == ExactTable(args.y_min, args.y_max, args.n_max)
    IN  \A xx \in args.x_min..args.x_max, mm \in 1..args.m_max,
           yy \in args.y_min..args.y_max, nn \in 1..args.n_max :
          RX[xx, mm] = RY[yy, nn] =>
            PackKey(xt1[mm][xx + 1 - args.x_min], xt2[mm][xx + 1 - args.x_min])
            = PackKey(yt1[nn][yy + 1 - args.y_min], yt2[nn][yy + 1 - args.y_min])

\* the tables hold two different bases with one repunit, of length above 1
C3_Witness ==
  /\ TablesBuilt
  /\ \E xx \in args.x_min..args.x_max, mm \in 2..args.m_max,
        yy \in args.y_min..args.y_max, nn \in 2..args.n_max :
       /\ xx # yy
       /\ repunit(xx, mm) = repunit(yy, nn)
       /\ PackKey(xt1[mm][xx + 1 - args.x_min], xt2[mm][xx + 1 - args.x_min])
          = PackKey(yt1[nn][yy + 1 - args.y_min], yt2[nn][yy + 1 - args.y_min])

\* the entry of a table for base b and length t is R(b, t) mod md, and the
\* product and sum it was made from stayed below 2^64
EntryExact(tab, lo, hi, len, md) ==
  \A b \in lo..hi, t \in 1..len :
    /\ tab[t][b + 1 - lo] = BigMod(repunit(b, t), md)
    /\ t > 1 => Len(BigAdd(BigMul(tab[t - 1][b + 1 - lo], U64(b)), <<1>>)) <= 8

\* C4 (residue recurrence): for every base b of the input and every length t
\* in 1..max_t the entry of build_repunit_tables equals R(b, t) mod M, for
\* M = MOD1 and M = MOD2, with row * b + 1 evaluated in wrapping 64-bit
\* arithmetic: the intermediate never reaches 2^64.
C4_ResidueTable ==
  TablesBuilt =>
    /\ EntryExact(xt1, args.x_min, args.x_max, args.m_max, MOD1)
    /\ EntryExact(xt2, args.x_min, args.x_max, args.m_max, MOD2)
    /\ EntryExact(yt1, args.y_min, args.y_max, args.n_max, MOD1)
    /\ EntryExact(yt2, args.y_min, args.y_max, args.n_max, MOD2)

\* a table entry whose repunit is above the modulus and whose intermediate
\* row * b + 1 is above 2^32
C4_Witness ==
  /\ TablesBuilt
  /\ \E t \in 2..args.n_max :
       /\ BigLt(MOD1, repunit(args.y_max, t))
       /\ Len(BigMul(yt1[t - 1][args.y_max + 1 - args.y_min],
                     U64(args.y_max))) > 4
       /\ yt1[t][args.y_max + 1 - args.y_min] # repunit(args.y_max, t)

\* C5 (side constraints): the non-divisibility regime emits no tuple with
\* (m-1) mod (n-1) = 0; the n = 7 regime none with (m-1) mod 6 # 0; the
\* finite-case regime none with (m-1) mod k # 0, k = n - 1.
C5_SideConstraints ==
  /\ regime = "nondiv" => \A s \in Sols : (s[3] - 1) % (s[4] - 1) # 0
  /\ regime = "n7" => \A s \in Sols : (s[3] - 1) % 6 = 0
  /\ regime = "finite" => \A s \in Sols : (s[3] - 1) % (s[4] - 1) = 0

\* the finite-case driver returns a tuple whose m - 1 is a proper multiple
\* of k = n - 1 >= 2
C5_Witness ==
  /\ regime = "finite" /\ pc = "done"
  /\ \E s \in Sols : s[4] - 1 >= 2 /\ s[3] - 1 > s[4] - 1
                     /\ (s[3] - 1) % (s[4] - 1) = 0

\* C6 (ordering): every emitted tuple (x, y, m, n) has x < y and n < m.
C6_Ordering == \A s \in Sols : s[1] < s[2] /\ s[4] < s[3]

\* a driver has returned a list with a tuple in it
C6_Witness ==
  /\ pc = "done"
  /\ Len(solutions) > 0
  /\ solutions[1][1] < solutions[1][2]
  /\ solutions[1][4] < solutions[1][3]

\* C7 (finite-case termination): on the case list of the code (and on the
\* small cases) the growth loop of every x ends after finitely many steps and
\* check_div_finite_cases returns, when the driver takes the steps it can
\* take (LiveSpec).
C7_FiniteTerminates == (regime = "finite") ~> (pc = "done")

\* the driver has returned from the case list of the code, k = 13 included
C7_Witness ==
  /\ regime = "finite" /\ pc = "done"
  /\ args = Cases
  /\ ci = Len(Cases) + 1
  /\ \E c \in 1..Len(Cases) : Cases[c] = <<13, 3>>

\* the values the message of the error is formatted from
Surfaced == {raised.values[j] : j \in 1..Len(raised.values)}

\* nothing was enumerated and no list is returned
N7Aborted ==
  /\ pc = "raised"
  /\ by_value = EmptyMap /\ x = 0
  /\ solutions = << >>

\* C8 (configuration drift): if the computed y_max differs from 5575 the
\* regime aborts at once, before any x is enumerated and without a list, and
\* the raised error surfaces both values, the computed one and the expected
\* literal.
C8_BothValuesSurfaced ==
  (regime = "n7" /\ pc = "raised" /\ y_max # ExpectedYMax) =>
    /\ N7Aborted
    /\ y_max \in Surfaced
    /\ ExpectedYMax \in Surfaced

\* C9 (512-step bound): no growth step is made from a state with
\* m > 512, so that m never exceeds 513.
C9_StepBound == regime = "finite" => m <= StepCap + 1

\* R(xx, mm) = tg; R(xx, mm) >= 2^mm - 1 has at least mm bits, so a longer
\* repunit is not computed
RepunitIs(xx, mm, tg) == mm <= BitLength(tg) /\ repunit(xx, mm) = tg

\* every valid m of (case c, xx) whose repunit is the target is recorded
CaseComplete(c, xx) ==
  LET kk == args[c][1]
      yy == args[c][2]
      tg == repunit(yy, kk + 1)
  IN  \A mm \in (kk + 2)..StepCap :
        ((mm - 1) % kk = 0 /\ RepunitIs(xx, mm, tg)) =>
          <<xx, yy, mm, kk + 1>> \in Sols

\* C10 (finite-case completeness): if some m with n < m <= 512 and
\* (m-1) mod k = 0 has R(x, m) = R(y, n), the driver records (x, y, m, n)
\* and stops growing that x; no tuple has m <= n or (m-1) mod k # 0; at
\* most one tuple is recorded per (k, y, x).
C10_FiniteComplete ==
  regime = "finite" =>
    /\ (pc = "forx" /\ x > 2) => CaseComplete(ci, x - 1)
    /\ pc = "done" =>
         \A c \in 1..Len(args) : \A xx \in 2..(args[c][2] - 1) :
           CaseComplete(c, xx)
    /\ \A s \in Sols : s[3] > s[4] /\ (s[3] - 1) % (s[4] - 1) = 0
    /\ \A i, j \in 1..Len(solutions) :
         (solutions[i][1] = solutions[j][1] /\ solutions[i][2] = solutions[j][2]
          /\ solutions[i][4] = solutions[j][4]) => i = j
    /\ pc = "while" =>
         \A s \in Sols : ~(s[1] = x /\ s[2] = y /\ s[4] = n)

\* the driver has returned the tuple of a case after skipping an m above n
\* with (m - 1) mod k # 0
C10_Witness ==
  /\ regime = "finite" /\ pc = "done"
  /\ \E c \in 1..Len(args) : \E xx \in 2..(args[c][2] - 1) :
       \E mm \in (args[c][1] + 3)..StepCap :
         /\ (mm - 1) % args[c][1] = 0
         /\ RepunitIs(xx, mm, repunit(args[c][2], args[c][1] + 1))
         /\ (mm - 2) % args[c][1] # 0
         /\ <<xx, args[c][2], mm, args[c][1] + 1>> \in Sols
=============================================================================
